---- MODULE Spec2Model ----
(***************************************************************************)
(* The interviewer agent of src/src/agents/interviewer.py as a state       *)
(* machine: the AgentState dictionary, the node functions of the graph and *)
(* the edges that order them.                                              *)
(*                                                                         *)
(* state  the AgentState dictionary (a function from the keys that are set *)
(*        to their values; a key that was never set is not in its domain). *)
(* pc     the node the run executes next, or "END" when the run has        *)
(*        stopped at a node that has no outgoing edge.                     *)
(* error  the Python exception that ended the run, "none" while there is   *)
(*        none; pc then stays at the node that raised it, state is the     *)
(*        dictionary as mutated in place up to the raise, and the session  *)
(*        takes no further step under Spec; GatewaySpec adds a failing     *)
(*        model call and the host's retry of the failed node.              *)
(* follow_ups_in_a_row  observer: how many routing decisions in a row      *)
(*        chose follow_up_question.                                        *)
(*                                                                         *)
(* The graph is the registered nodes and the edges between them; a node    *)
(* without an outgoing edge ends the run, and the host starts the next run *)
(* at the entry point with the candidate's message (action invoke).        *)
(*                                                                         *)
(* Spec         the graph as compiled.                                     *)
(* GatewaySpec  the graph with model calls that raise, and retries.        *)
(* ScoreSpec    the score extraction of evaluate_response on every text    *)
(*              of a few lines.                                            *)
(* ToolSpec     acall_model and pending_tool_calls as a tool-call loop.    *)
(* HumanSpec    the graph of src/src/agents/human_demo.py; state is then   *)
(*              its MessagesState and the thread's interrupt marker.       *)
(* The language model is an opaque capability: each call returns one of    *)
(* the texts of Contents.                                                  *)
(***************************************************************************)
EXTENDS Integers, Sequences, FiniteSets, TLC

VARIABLES state, pc, error, follow_ups_in_a_row

vars == <<state, pc, error, follow_ups_in_a_row>>

(* ------------------------------ bounds -------------------------------- *)

\* Most questions a category of a modelled bank holds.
MaxQuestions == 2

\* Largest remaining-step budget a modelled tool loop starts with.
MaxSteps == 4

\* The category names a modelled bank draws from (keys of interview_questions).
CategoryNames == {"behavioral", "technical"}

(* ------------------------- Python dictionaries ------------------------ *)

\* dict.get(k, d)
Get(d, k, default) == IF k \in DOMAIN d THEN d[k] ELSE default

\* d[k] = v
Put(d, k, v) == [x \in DOMAIN d \cup {k} |-> IF x = k THEN v ELSE d[x]]

\* Python's None, and a present value, for a field that may be None.
None == <<>>

Some(x) == <<x>>

\* What a function call leaves behind: the dictionary as mutated in place,
\* the value returned, and the exception raised ("none" if it returned).
Return(s, v) == [state |-> s, ret |-> v, error |-> "none"]

Raise(s, e) == [state |-> s, ret |-> None, error |-> e]

(* --------------------------- the question bank ------------------------ *)

\* The competency tag of the i-th question of a category, as in the bank of
\* constants.py.
CompetencyOf(category, i) ==
    IF category = "behavioral"
    THEN (IF i = 1 THEN "Problem-Solving"
          ELSE IF i = 2 THEN "Technical Expertise"
          ELSE "Collaboration")
    ELSE "Technical Expertise"

\* One question of the bank: {"question": text, "competency": tag}.  The text
\* is named by its category and position.
Question(category, i) ==
    [question |-> <<category, i>>, competency |-> Some(CompetencyOf(category, i))]

\* The value returned when every category is exhausted.
Done == [question |-> <<"Interview complete. Thank you for your time!", 0>>,
         competency |-> None]

\* state["questions"]["interview_questions"]: an insertion-ordered dict, a
\* sequence of [name, items] entries with distinct names.
Category(name, n) == [name |-> name, items |-> [i \in 1..n |-> Question(name, i)]]

Banks ==
    {<<Category(c, n)>> : c \in CategoryNames, n \in 0..MaxQuestions}
    \cup {<<Category(p[1], n), Category(p[2], m)>> :
            p \in {q \in CategoryNames \X CategoryNames : q[1] # q[2]},
            n \in 0..MaxQuestions, m \in 0..MaxQuestions}

\* list(interview_questions.keys())
Keys(bank) == [i \in 1..Len(bank) |-> bank[i].name]

\* interview_questions.get(category, [])
QuestionsGet(bank, category) ==
    IF \E i \in 1..Len(bank) : bank[i].name = category
    THEN bank[CHOOSE i \in 1..Len(bank) : bank[i].name = category].items
    ELSE <<>>

(* ------------------------------ messages ------------------------------ *)

AIMessage(content) == [type |-> "ai", content |-> content]

HumanMessage(content) == [type |-> "human", content |-> content]

\* A variant of Append1 that starts the list over.
Append1_replaces(s, key, v) == Put(s, key, <<v>>)

\* state[key].append(v)
Append1(s, key, v) == Put(s, key, Append(s[key], v))

\* What the candidate sends: a reply, or a question about the process.
ProcessQuestion == <<"What's the format of this interview?", 0>>

CandidateMessages == {<<"candidate", 0>>, ProcessQuestion}

(* ------------------------- fetch_next_question ------------------------ *)

\* A variant of advance_category that forgets to move to the next category.
advance_category_forgot_category(s) == Put(s, "idx", 0)

\* A variant of advance_category that does not reset the question index.
advance_category_keeps_idx(s) == Put(s, "category_idx", s["category_idx"] + 1)

\* state["category_idx"] += 1; state["idx"] = 0
advance_category(s) == Put(Put(s, "category_idx", s["category_idx"] + 1), "idx", 0)

fetch_next_question(s) ==
    LET bank == s["questions"]
        categories == Get(s, "categories", Keys(bank))
        category_idx == Get(s, "category_idx", 0)
    IN  IF category_idx >= Len(categories)
        THEN Raise(s, "IndexError")
        ELSE
        LET category == categories[category_idx + 1]
            idx == Get(s, "idx", 0)
            questions_by_category == QuestionsGet(bank, category)
        IN  IF idx >= Len(questions_by_category)
            THEN IF "category_idx" \notin DOMAIN s
                 THEN Raise(s, "KeyError")
                 ELSE
                 LET s1 == advance_category(s)
                 IN  IF s1["category_idx"] >= Len(categories)
                     THEN Return(s1, Done)
                     ELSE
                     LET next == QuestionsGet(bank, categories[s1["category_idx"] + 1])
                     IN  IF Len(next) = 0
                         THEN Raise(s1, "IndexError")
                         ELSE Return(s1, next[1])
            ELSE Return(s, questions_by_category[idx + 1])

(* --------------------------- determine_next_path ---------------------- *)

\* A variant of determine_next_path that does not look at sufficient_response.
determine_next_path_ignores_sufficiency(s) ==
    IF Get(s, "follow_up_count", 0) < 2
    THEN "follow_up_question"
    ELSE IF Get(s, "idx", 0) + 1 >= Len(QuestionsGet(s["questions"], "behavioral"))
    THEN "end_interview"
    ELSE "fetch_question"

determine_next_path(s) ==
    IF Get(s, "follow_up_count", 0) < 2 /\ ~Get(s, "sufficient_response", FALSE)
    THEN "follow_up_question"
    ELSE
    LET current_category == Get(s, "category", "behavioral")
        questions == QuestionsGet(s["questions"], current_category)
    IN  IF Get(s, "idx", 0) + 1 >= Len(questions)
        THEN "end_interview"
        ELSE "fetch_question"

\* path_map of the conditional edges out of "routing".
path_map(path) ==
    CASE path = "follow_up_question" -> "follow_up_question"
      [] path = "fetch_question" -> "fetch_question"
      [] path = "end_interview" -> "closing_remarks"

(* ------------------------- the model's judgment text ------------------ *)

\* A text is a sequence of lines (content.split("\n")), a line a sequence of
\* one-character strings.
Digits == <<"0", "1", "2", "3", "4", "5", "6", "7", "8", "9">>

IsDigitChar(c) == \E d \in 1..Len(Digits) : Digits[d] = c

DigitValue(c) == (CHOOSE d \in 1..Len(Digits) : Digits[d] = c) - 1

RECURSIVE lstrip(_)
lstrip(line) ==
    IF Len(line) > 0 /\ line[1] = " " THEN lstrip(Tail(line)) ELSE line

RECURSIVE rstrip(_)
rstrip(line) ==
    IF Len(line) > 0 /\ line[Len(line)] = " "
    THEN rstrip(SubSeq(line, 1, Len(line) - 1))
    ELSE line

\* str.strip()
strip(line) == rstrip(lstrip(line))

\* Characters that str.isdigit() accepts and int() rejects, written by their
\* Unicode names.
OtherDigitChars == {"SUPERSCRIPT TWO"}

\* str.isdigit(): not empty, and every character a digit
isdigit(line) ==
    /\ Len(line) > 0
    /\ \A i \in 1..Len(line) : IsDigitChar(line[i]) \/ line[i] \in OtherDigitChars

\* int() accepts a line that is a decimal number between optional whitespace,
\* and raises ValueError for any other.
int_accepts(line) ==
    /\ Len(strip(line)) > 0
    /\ \A i \in 1..Len(strip(line)) : IsDigitChar(strip(line)[i])

\* int() of a line that int() accepts
RECURSIVE int(_)
int(line) ==
    LET t == strip(line)
    IN  IF Len(t) = 0 THEN 0
        ELSE 10 * int(SubSeq(t, 1, Len(t) - 1)) + DigitValue(t[Len(t)])

\* int([line for line in content.split("\n") if line.strip().isdigit()][0])
score_expression(content) ==
    LET hits == SelectSeq(content, LAMBDA line : isdigit(strip(line)))
    IN  IF Len(hits) = 0 THEN [error |-> "IndexError", ret |-> None]
        ELSE IF ~int_accepts(hits[1]) THEN [error |-> "ValueError", ret |-> None]
        ELSE [error |-> "none", ret |-> Some(int(hits[1]))]

\* A variant of ExtractScore that takes the last matching line.
ExtractScore_last_hit(content) ==
    LET hits == SelectSeq(content, LAMBDA line : isdigit(strip(line)))
    IN  IF Len(hits) = 0 \/ ~int_accepts(hits[Len(hits)]) THEN None
        ELSE Some(int(hits[Len(hits)]))

\* score = None; try: score = <score_expression>; except Exception: pass
ExtractScore(content) ==
    IF score_expression(content).error # "none" THEN None
    ELSE score_expression(content).ret

\* The texts the model returns to a judgment request.
Contents ==
    { << <<"3">>, <<"o", "k">> >>,
      << <<"n", "o">> >>,
      << <<"o", "k">>, <<" ", "7">> >> }

(* --------------------------- evaluate_response ------------------------ *)

\* A variant of advance_question that leaves the cursor where it is.
advance_question_skipped(s) == s

\* state["idx"] += 1
advance_question(s) == Put(s, "idx", s["idx"] + 1)

\* content is what the model answered to the judgment prompt.
evaluate_response(s, response, content) ==
    LET fetched == fetch_next_question(s)
    IN  IF fetched.error # "none"
        THEN Raise(fetched.state, fetched.error)
        ELSE
        LET question_info == fetched.ret
            competency == question_info.competency
            score == ExtractScore(content)
            rationale == content
            s1 == IF "eval_results" \in DOMAIN fetched.state
                  THEN fetched.state
                  ELSE Put(fetched.state, "eval_results", <<>>)
            s2 == Append1(s1, "eval_results",
                          [question |-> question_info.question,
                           competency |-> competency,
                           score |-> score,
                           rationale |-> rationale])
        IN  IF "idx" \notin DOMAIN s2
            THEN Raise(s2, "KeyError")
            ELSE Return(advance_question(s2),
                        [score |-> score, rationale |-> rationale])

(* ------------------- final_evaluation_node: aggregation ---------------- *)

\* final_scores: the scores of the records of one competency, in order
ScoresOf(eval_results, competency) ==
    LET hits == SelectSeq(eval_results, LAMBDA r : r.competency = competency)
    IN  [i \in 1..Len(hits) |-> hits[i].score]

RECURSIVE sum(_)
sum(v) == IF Len(v) = 0 THEN 0 ELSE v[1][1] + sum(Tail(v))

\* sum(v) / len(v), kept as the fraction it is
Average(v) == [num |-> sum(v), den |-> Len(v)]

\* summary_scores, or the TypeError of sum() over a list that holds a None
summary_scores(eval_results) ==
    LET keys == {eval_results[i].competency : i \in 1..Len(eval_results)}
    IN  IF \E i \in 1..Len(eval_results) : eval_results[i].score = None
        THEN [error |-> "TypeError", ret |-> None]
        ELSE [error |-> "none",
              ret |-> [k \in keys |-> Average(ScoresOf(eval_results, k))]]

(* ------------------------------ the session --------------------------- *)

\* The initial AgentState a host hands to the graph: the bank, an empty
\* transcript, and any of the optional keys (AgentState is total=False).
InitialStates ==
    {[k \in {"questions", "messages"} \cup opt |->
        CASE k = "questions" -> bank
          [] k = "messages" -> <<>>
          [] k = "idx" -> 0
          [] k = "category_idx" -> 0
          [] k = "sufficient_response" -> TRUE] :
      bank \in Banks,
      opt \in SUBSET {"idx", "category_idx", "sufficient_response"}}

Init ==
    /\ state \in InitialStates
    /\ pc = "welcome"
    /\ error = "none"
    /\ follow_ups_in_a_row = 0

Running(node) == pc = node /\ error = "none"

\* A variant of routing_node that counts a follow-up on every pass.
routing_node_counts_every_pass(s) ==
    Put(s, "follow_up_count", Get(s, "follow_up_count", 0) + 1)

\* state["follow_up_count"] = state.get("follow_up_count", 0)
routing_node(s) == Put(s, "follow_up_count", Get(s, "follow_up_count", 0))

welcome_node ==
    /\ Running("welcome")
    /\ state' = Append1(state, "messages", AIMessage(<<"welcome", 0>>))
    /\ pc' = "fetch_question"
    /\ UNCHANGED <<error, follow_ups_in_a_row>>

fetch_question_node ==
    /\ Running("fetch_question")
    /\ LET fetched == fetch_next_question(state)
       IN  IF fetched.error # "none"
           THEN /\ state' = fetched.state
                /\ error' = fetched.error
                /\ UNCHANGED pc
           ELSE /\ state' = Put(Append1(fetched.state, "messages",
                                        AIMessage(fetched.ret.question)),
                                "current_competency", fetched.ret.competency)
                /\ pc' = "evaluate_response"
                /\ UNCHANGED error
    /\ UNCHANGED follow_ups_in_a_row

evaluate_response_node ==
    /\ Running("evaluate_response")
    /\ \E content \in Contents :
         LET messages == state["messages"]
             response == messages[Len(messages)].content
             evaluation == evaluate_response(state, response, content)
         IN  IF evaluation.error # "none"
             THEN /\ state' = evaluation.state
                  /\ error' = evaluation.error
                  /\ UNCHANGED pc
             ELSE IF "category_idx" \notin DOMAIN evaluation.state
             THEN /\ state' = evaluation.state
                  /\ error' = "KeyError"
                  /\ UNCHANGED pc
             ELSE /\ state' = evaluation.state
                  /\ pc' = "routing"
                  /\ UNCHANGED error
    /\ UNCHANGED follow_ups_in_a_row

\* The node "routing": routing_node, then the conditional edges out of it.
routing ==
    /\ Running("routing")
    /\ LET s1 == routing_node(state)
           path == determine_next_path(s1)
       IN  /\ state' = s1
           /\ pc' = path_map(path)
           /\ follow_ups_in_a_row' =
                IF path = "follow_up_question" THEN follow_ups_in_a_row + 1 ELSE 0
    /\ UNCHANGED error

\* No edge leaves follow_up_question: the run stops after it.
follow_up_question_node ==
    /\ Running("follow_up_question")
    /\ IF Len(state["messages"]) < 2
       THEN /\ error' = "IndexError"
            /\ UNCHANGED <<state, pc>>
       ELSE IF "current_competency" \notin DOMAIN state
       THEN /\ error' = "KeyError"
            /\ UNCHANGED <<state, pc>>
       ELSE /\ state' = Append1(state, "messages", AIMessage(<<"follow_up", 0>>))
            /\ pc' = "END"
            /\ UNCHANGED error
    /\ UNCHANGED follow_ups_in_a_row

closing_remarks_node ==
    /\ Running("closing_remarks")
    /\ state' = Append1(state, "messages", AIMessage(<<"closing", 0>>))
    /\ pc' = "final_evaluation"
    /\ UNCHANGED <<error, follow_ups_in_a_row>>

\* No edge leaves final_evaluation: the run stops after it.
final_evaluation_node ==
    /\ Running("final_evaluation")
    /\ IF "eval_results" \notin DOMAIN state
       THEN /\ error' = "KeyError"
            /\ UNCHANGED <<state, pc>>
       ELSE LET scores == summary_scores(state["eval_results"])
            IN  IF scores.error # "none"
                THEN /\ error' = scores.error
                     /\ UNCHANGED <<state, pc>>
                ELSE /\ state' = Append1(
                           Put(state, "final_evaluation",
                               [scores |-> scores.ret, summary |-> "summary"]),
                           "messages", AIMessage(<<"Final evaluation completed.", 0>>))
                     /\ pc' = "END"
                     /\ UNCHANGED error
    /\ UNCHANGED follow_ups_in_a_row

\* The host invokes the compiled graph again on the same thread with the
\* candidate's message: the checkpointed state gets the message and the run
\* starts at the entry point.
invoke ==
    /\ Running("END")
    /\ \E content \in CandidateMessages :
         state' = Append1(state, "messages", HumanMessage(content))
    /\ pc' = "welcome"
    /\ UNCHANGED <<error, follow_ups_in_a_row>>

Next ==
    \/ welcome_node
    \/ fetch_question_node
    \/ evaluate_response_node
    \/ routing
    \/ follow_up_question_node
    \/ closing_remarks_node
    \/ final_evaluation_node
    \/ invoke

Spec == Init /\ [][Next]_vars

(* ------------------------ model-gateway failures ----------------------- *)

\* A variant of evaluate_response_until_model_call that advances the cursor
\* before the model is called.
evaluate_response_advances_first(s) ==
    LET fetched == fetch_next_question(s)
    IN  IF fetched.error # "none" \/ "idx" \notin DOMAIN fetched.state
        THEN fetched
        ELSE Return(advance_question(fetched.state), fetched.ret)

\* evaluate_response up to its call of the model: the question is derived
\* from the cursor and the prompt is built.
evaluate_response_until_model_call(s) == fetch_next_question(s)

\* What a node has done to the state when it calls the model, or the
\* exception it raises before it gets there.
StateAtModelCall(node, s) ==
    CASE node = "evaluate_response" -> evaluate_response_until_model_call(s)
      [] node = "follow_up_question" ->
           IF Len(s["messages"]) < 2 THEN Raise(s, "IndexError")
           ELSE IF "current_competency" \notin DOMAIN s THEN Raise(s, "KeyError")
           ELSE Return(s, None)
      [] node = "closing_remarks" -> Return(s, None)
      [] node = "final_evaluation" ->
           IF "eval_results" \notin DOMAIN s THEN Raise(s, "KeyError")
           ELSE IF summary_scores(s["eval_results"]).error # "none"
           THEN Raise(s, summary_scores(s["eval_results"]).error)
           ELSE Return(s, None)

\* The nodes that call the model.
GatewayNodes ==
    {"evaluate_response", "follow_up_question", "closing_remarks", "final_evaluation"}

\* model_runnable.ainvoke raises in the node that runs: the exception leaves
\* the node, which has done what it does before the call.
gateway_failure ==
    /\ error = "none"
    /\ pc \in GatewayNodes
    /\ LET before == StateAtModelCall(pc, state)
       IN  /\ before.error = "none"
           /\ state' = before.state
    /\ error' = "GatewayInvocationFailure"
    /\ UNCHANGED <<pc, follow_ups_in_a_row>>

\* The host runs the failed step again (the checkpointer kept the thread).
retry ==
    /\ error = "GatewayInvocationFailure"
    /\ error' = "none"
    /\ UNCHANGED <<state, pc, follow_ups_in_a_row>>

GatewayNext ==
    \/ Next
    \/ gateway_failure
    \/ retry

GatewaySpec == Init /\ [][GatewayNext]_vars

(* --------------------------- score extraction -------------------------- *)

MaxLines == 2
MaxLineLen == 2

\* The characters of the judgment texts.
Alphabet == {"3", " ", "x", "SUPERSCRIPT TWO"}

Lines == UNION {[1..n -> Alphabet] : n \in 0..MaxLineLen}

\* content.split("\n") of every text: at least one line.
Texts == UNION {[1..n -> Lines] : n \in 1..MaxLines}

ScoreInit ==
    /\ state \in {[content |-> content] : content \in Texts}
    /\ pc = "extract_score"
    /\ error = "none"
    /\ follow_ups_in_a_row = 0

\* Lines 132-138 of evaluate_response applied to the text the model returned.
extract_score ==
    /\ Running("extract_score")
    /\ state' = [content |-> state.content,
                 score |-> ExtractScore(state.content),
                 rationale |-> state.content]
    /\ pc' = "END"
    /\ UNCHANGED <<error, follow_ups_in_a_row>>

ScoreNext == extract_score

ScoreSpec == ScoreInit /\ [][ScoreNext]_vars

(* ------------------- human_demo: the human-input graph ----------------- *)

\* The longest transcript of a run of human_demo.
MaxMessages == 6

\* The tool calls of the replies the model gives: none, AskHuman, a tool, or
\* two calls in either order.
ToolCallLists ==
    {<<>>, <<"AskHuman">>, <<"search">>, <<"search", "AskHuman">>, <<"AskHuman", "search">>}

AgentReply(calls) == [type |-> "ai", content |-> <<"reply", 0>>, tool_calls |-> calls]

ToolMessage(name) == [type |-> "tool", content |-> <<name, 0>>, tool_calls |-> <<>>]

HumanAnswer == [type |-> "human", content |-> <<"What should I do next?", 0>>,
                tool_calls |-> <<>>]

\* A variant of should_continue that hands every tool call to the tool node.
should_continue_never_asks(s) ==
    IF s["messages"][Len(s["messages"])].tool_calls = <<>> THEN "end" ELSE "continue"

should_continue(s) ==
    LET last_message == s["messages"][Len(s["messages"])]
    IN  IF last_message.tool_calls = <<>> THEN "end"
        ELSE IF last_message.tool_calls[1] = "AskHuman" THEN "ask_human"
        ELSE "continue"

\* The path map of the conditional edge from "agent".
human_path_map(path) ==
    CASE path = "continue" -> "action"
      [] path = "ask_human" -> "ask_human"
      [] path = "end" -> "END"

\* interrupt_before: the nodes before which a run suspends.
interrupt_before == {"ask_human"}

\* The thread of a run: the MessagesState and, in interrupt, whether the run
\* is suspended before its next node ("suspended"), was resumed there
\* ("resumed"), or neither ("no").
HumanInit ==
    /\ state = [messages |-> <<[type |-> "human", content |-> <<"user", 0>>,
                                tool_calls |-> <<>>]>>,
                interrupt |-> "no"]
    /\ pc = "agent"
    /\ error = "none"
    /\ follow_ups_in_a_row = 0

\* Node "agent" and the conditional edge that leaves it.
call_model ==
    /\ Running("agent")
    /\ Len(state["messages"]) < MaxMessages
    /\ \E calls \in ToolCallLists :
         LET s1 == Append1(state, "messages", AgentReply(calls))
             next == human_path_map(should_continue(s1))
         IN  /\ pc' = next
             /\ state' = [s1 EXCEPT !["interrupt"] =
                            IF next \in interrupt_before THEN "suspended" ELSE "no"]
    /\ UNCHANGED <<error, follow_ups_in_a_row>>

\* The host resumes the suspended run.
resume ==
    /\ error = "none"
    /\ state["interrupt"] = "suspended"
    /\ state' = [state EXCEPT !["interrupt"] = "resumed"]
    /\ UNCHANGED <<pc, error, follow_ups_in_a_row>>

\* Node "ask_human" and its edge to "agent".
ask_human ==
    /\ Running("ask_human")
    /\ pc \in interrupt_before => state["interrupt"] = "resumed"
    /\ state' = [Append1(state, "messages", HumanAnswer) EXCEPT !["interrupt"] = "no"]
    /\ pc' = "agent"
    /\ UNCHANGED <<error, follow_ups_in_a_row>>

\* Node "action" (the tool node: one tool message per tool call) and its
\* edge to "agent".
action ==
    /\ Running("action")
    /\ LET calls == state["messages"][Len(state["messages"])].tool_calls
       IN  state' = [state EXCEPT !["messages"] =
                        @ \o [i \in 1..Len(calls) |-> ToolMessage(calls[i])],
                     !["interrupt"] = "no"]
    /\ pc' = "agent"
    /\ UNCHANGED <<error, follow_ups_in_a_row>>

HumanNext ==
    \/ call_model
    \/ resume
    \/ ask_human
    \/ action

HumanSpec == HumanInit /\ [][HumanNext]_vars

(* ------------------------- the tool-call loop -------------------------- *)

\* What the model answers in the tool loop: a text, with or without requests
\* for tool calls.
ModelResponses ==
    {[type |-> "ai", content |-> <<c, 0>>, tool_calls |-> t] :
       c \in {"answer", "let me compute"},
       t \in {<<>>, <<"calculator">>, <<"calculator", "calculator">>}}

\* AIMessage(content="Sorry, need more steps to process this request.")
Refusal ==
    [type |-> "ai",
     content |-> <<"Sorry, need more steps to process this request.", 0>>,
     tool_calls |-> <<>>]

\* A variant of acall_model that forwards the response whatever the budget.
acall_model_forwards(s, response) ==
    IF "remaining_steps" \notin DOMAIN s
    THEN Raise(s, "KeyError")
    ELSE Return(s, [messages |-> <<response>>])

\* response is what the model answered to state["messages"]; the value
\* returned is the update the graph adds to the messages.
acall_model(s, response) ==
    IF "remaining_steps" \notin DOMAIN s
    THEN Raise(s, "KeyError")
    ELSE IF s["remaining_steps"] < 2 /\ response.tool_calls # <<>>
    THEN Return(s, [messages |-> <<Refusal>>])
    ELSE Return(s, [messages |-> <<response>>])

pending_tool_calls(s) ==
    LET last_message == s["messages"][Len(s["messages"])]
    IN  IF last_message.type # "ai"
        THEN Raise(s, "TypeError")
        ELSE IF last_message.tool_calls # <<>>
        THEN Return(s, "tools")
        ELSE Return(s, "done")

\* The conditional edges out of "model": {"tools": "tools", "done": END}.
model_path_map(path) == IF path = "tools" THEN "tools" ELSE "END"

\* The remaining-step budget goes down by one with every step of the loop.
consume_step(s) ==
    IF "remaining_steps" \in DOMAIN s /\ s["remaining_steps"] > 0
    THEN Put(s, "remaining_steps", s["remaining_steps"] - 1)
    ELSE s

\* The state a tool loop starts from: the candidate's message, and the budget
\* when the state carries one.
ToolInitialStates ==
    {[messages |-> <<HumanMessage(<<"candidate", 0>>)>>]}
    \cup {[messages |-> <<HumanMessage(<<"candidate", 0>>)>>, remaining_steps |-> n] :
            n \in 0..MaxSteps}

ToolInit ==
    /\ state \in ToolInitialStates
    /\ pc = "model"
    /\ error = "none"
    /\ follow_ups_in_a_row = 0

\* The node "model": acall_model, then the conditional edges out of it.
model_node ==
    /\ Running("model")
    /\ \E response \in ModelResponses :
         LET called == acall_model(state, response)
         IN  IF called.error # "none"
             THEN /\ error' = called.error
                  /\ UNCHANGED <<state, pc>>
             ELSE
             LET s1 == Put(called.state, "messages",
                           called.state["messages"] \o called.ret.messages)
                 path == pending_tool_calls(s1)
             IN  IF path.error # "none"
                 THEN /\ state' = s1
                      /\ error' = path.error
                      /\ UNCHANGED pc
                 ELSE /\ state' = consume_step(s1)
                      /\ pc' = model_path_map(path.ret)
                      /\ UNCHANGED error
    /\ UNCHANGED follow_ups_in_a_row

\* The node "tools": the requested tools run, their result joins the
\* messages and the model decides again.
tools_node ==
    /\ Running("tools")
    /\ state' = consume_step(Append1(state, "messages",
                   [type |-> "tool", content |-> <<"result", 0>>, tool_calls |-> <<>>]))
    /\ pc' = "model"
    /\ UNCHANGED <<error, follow_ups_in_a_row>>

ToolNext ==
    \/ model_node
    \/ tools_node

ToolSpec == ToolInit /\ [][ToolNext]_vars

(* ------------------------------ observers ----------------------------- *)

CategoryIdx(s) == Get(s, "category_idx", 0)

Idx(s) == Get(s, "idx", 0)

EvalResults(s) == Get(s, "eval_results", <<>>)

IsQuestion(m) == m.type = "ai" /\ m.content[1] \in CategoryNames

IsDoneSignal(m) == m.type = "ai" /\ m.content = Done.question

IsFollowUp(m) == m.type = "ai" /\ m.content = <<"follow_up", 0>>

IsCandidate(m) == m.type = "human"

\* The texts of the questions fetch_question_node has emitted, in order.
QuestionsEmitted(s) ==
    LET qs == SelectSeq(s["messages"], IsQuestion) IN [i \in 1..Len(qs) |-> qs[i].content]

\* The texts of every question of the bank, in bank order.
RECURSIVE BankOrder(_)
BankOrder(bank) ==
    IF Len(bank) = 0 THEN <<>>
    ELSE [i \in 1..Len(bank[1].items) |-> bank[1].items[i].question]
         \o BankOrder(Tail(bank))

\* Every category of the bank holds at least one question.
NoEmptyCategory(s) ==
    \A i \in 1..Len(s["questions"]) : Len(s["questions"][i].items) > 0

IsPrefix(a, b) == Len(a) <= Len(b) /\ SubSeq(b, 1, Len(a)) = a

(* ------------------------------- claims ------------------------------- *)

\* C1 as stated: neither category_idx nor the within-category index idx ever
\* decreases between two successive states.  fetch_next_question resets idx
\* to 0 when it moves to the next category, so this fails.
C1_NeitherIndexDecreases ==
    [][/\ CategoryIdx(state') >= CategoryIdx(state)
       /\ Idx(state') >= Idx(state)]_vars

\* C1 amended: category_idx never decreases, and idx never decreases while
\* category_idx stays the same (it decreases only in a step that advances
\* category_idx).
C1_CursorNeverMovesBack ==
    [][/\ CategoryIdx(state') >= CategoryIdx(state)
       /\ (Idx(state') < Idx(state) => CategoryIdx(state') > CategoryIdx(state))]_vars

\* C1 witness: the cursor has moved into the second category and a question
\* of it was evaluated.
C1_Witness ==
    /\ CategoryIdx(state) = 1
    /\ Idx(state) = 1
    /\ Len(EvalResults(state)) >= 2
    /\ error = "none"

\* C2: once fetch_next_question has returned the Done signal (here for a bank
\* without an empty category), a further call returns the Done signal again,
\* leaves the state unchanged and raises nothing.
C2_DoneIsIdempotent ==
    (/\ NoEmptyCategory(state)
     /\ Len(SelectSeq(state["messages"], IsDoneSignal)) > 0
     /\ error = "none")
    => LET again == fetch_next_question(state)
       IN  /\ again.error = "none"
           /\ again.ret = Done
           /\ again.state = state

\* C3: follow_up_count counts the follow-up questions chosen in a row, and
\* after two of them the routing step does not choose a third: it goes on to
\* fetch the next question.
C3_NoThirdFollowUp ==
    [][(pc = "routing" /\ follow_ups_in_a_row >= 2)
       => /\ state'["follow_up_count"] = 2
          /\ pc' # "follow_up_question"]_vars

\* C4: follow_up_count is at most 2 in every reachable state.
C4_FollowUpCountAtMostTwo == Get(state, "follow_up_count", 0) <= 2

\* C4 witness: routing_node has set follow_up_count and three follow-ups in a
\* row were chosen.
C4_Witness ==
    /\ "follow_up_count" \in DOMAIN state
    /\ follow_ups_in_a_row >= 3
    /\ Len(SelectSeq(state["messages"], IsFollowUp)) >= 3

\* C5: the questions emitted are the bank's questions in bank order, each
\* once, and the run is routed to closing_remarks only when every question of
\* every category has been emitted and answered (here for a bank without an
\* empty category).
C5_AllQuestionsBeforeClosing ==
    NoEmptyCategory(state)
    => /\ IsPrefix(QuestionsEmitted(state), BankOrder(state["questions"]))
       /\ pc = "closing_remarks"
          => /\ QuestionsEmitted(state) = BankOrder(state["questions"])
             /\ Len(EvalResults(state)) = Len(BankOrder(state["questions"]))

\* The bank of Scenario A with a response judged sufficient.
ScenarioA(s) ==
    /\ s["questions"] = <<Category("behavioral", 1)>>
    /\ Get(s, "sufficient_response", FALSE)

C7_DoneRoutesToClosing ==
    [][(/\ Running("fetch_question")
        /\ NoEmptyCategory(state)
        /\ fetch_next_question(state).error = "none"
        /\ fetch_next_question(state).ret = Done)
       => /\ pc' = "closing_remarks"
          /\ error' = "none"
          /\ EvalResults(state') = EvalResults(state)]_vars

\* C8: evaluate_response runs only when the last message of the transcript is
\* the candidate's, received after the question or follow-up was emitted.
C8_ScoresOnlyCandidateReply ==
    Running("evaluate_response")
    => IsCandidate(state["messages"][Len(state["messages"])])

\* C9: eval_results holds no more records than questions were fetched, and no
\* two of its records are for the same question.
C9_OneRecordPerQuestion ==
    LET eval_results == EvalResults(state)
    IN  /\ Len(eval_results) <= Len(QuestionsEmitted(state))
        /\ \A i, j \in 1..Len(eval_results) :
             eval_results[i].question = eval_results[j].question => i = j

\* C9 witness: the candidate has replied to a follow-up and a further
\* evaluation was recorded.
C9_Witness ==
    /\ Len(SelectSeq(state["messages"], IsFollowUp)) >= 1
    /\ Len(SelectSeq(state["messages"], IsCandidate)) >= 1
    /\ Len(EvalResults(state)) >= 2
    /\ pc = "routing"

\* The summary the aggregation is to give: per competency the average of the
\* scores that are not None, a competency without such a score left out.
Scored(eval_results) == SelectSeq(eval_results, LAMBDA r : r.score # None)

ExpectedSummary(eval_results) ==
    [k \in {Scored(eval_results)[i].competency : i \in 1..Len(Scored(eval_results))}
       |-> Average(ScoresOf(Scored(eval_results), k))]

\* C10: final_evaluation_node raises nothing whatever the records are, and
\* the scores it stores are the averages over the scores that are not None.
C10_AggregationNeverFaults ==
    /\ pc = "final_evaluation" => error = "none"
    /\ "final_evaluation" \in DOMAIN state
       => state["final_evaluation"].scores = ExpectedSummary(state["eval_results"])


\* A session the host set up in full: the cursor keys are set and no category
\* of the bank is empty.
WellFormedSession(s) ==
    /\ NoEmptyCategory(s)
    /\ {"idx", "category_idx"} \subseteq DOMAIN s

FinalEvaluationSet(s) == "final_evaluation" \in DOMAIN s

\* C11: a session in which the candidate keeps replying and every model call
\* succeeds does not stop before final_evaluation is set: while it is not
\* set, some step of the session can be taken.
C11_NoStopBeforeFinalEvaluation ==
    WellFormedSession(state) => (FinalEvaluationSet(state) \/ ENABLED Next)


\* closing_remarks_node's message, and whether it is the last of the transcript
IsClosing(m) == m.type = "ai" /\ m.content = <<"closing", 0>>

\* C12: final_evaluation is set once, by a step that follows the closing
\* remarks of a completed traversal (every question of the bank emitted and
\* evaluated), and once it is set no step changes the session.
C12_FinalEvaluationOnceThenFrozen ==
    [][/\ FinalEvaluationSet(state) => state' = state
       /\ (~FinalEvaluationSet(state) /\ FinalEvaluationSet(state'))
          => /\ IsClosing(state["messages"][Len(state["messages"])])
             /\ (NoEmptyCategory(state)
                 => /\ QuestionsEmitted(state) = BankOrder(state["questions"])
                    /\ Len(EvalResults(state)) = Len(BankOrder(state["questions"])))
      ]_vars


\* The run in progress was started by a candidate message that asks about the
\* process.
RunOfProcessQuestion(s) ==
    LET asked == SelectSeq(s["messages"], IsCandidate)
    IN  /\ Len(asked) > 0
        /\ asked[Len(asked)].content = ProcessQuestion
        /\ pc # "END"

\* C13: a run started by a candidate's question about the process (in a
\* session set up in full) answers it and suspends again: no step of it moves the cursor, fetches a question or
\* records an evaluation.
C13_ProcessQuestionKeepsCursor ==
    [][(WellFormedSession(state) /\ RunOfProcessQuestion(state))
       => /\ CategoryIdx(state') = CategoryIdx(state)
          /\ Idx(state') = Idx(state)
          /\ QuestionsEmitted(state') = QuestionsEmitted(state)
          /\ EvalResults(state') = EvalResults(state)]_vars


\* C14: every fetch of a new question resets the follow-up state: after
\* fetch_question has emitted a question that follows an evaluated one,
\* follow_up_count is 0 and sufficient_response is false.
C14_FetchResetsFollowUpState ==
    [][(/\ Running("fetch_question")
        /\ WellFormedSession(state)
        /\ Len(EvalResults(state)) >= 1
        /\ pc' = "evaluate_response"
        /\ Len(QuestionsEmitted(state')) > Len(QuestionsEmitted(state)))
       => /\ Get(state', "follow_up_count", 0) = 0
          /\ ~Get(state', "sufficient_response", FALSE)]_vars


\* C15: a step of "model" with the budget below 2 ends with a last message
\* that carries no tool calls and routes to END, so no tool runs after it (a
\* reply that asked for a tool was replaced by the fixed refusal); in every
\* step of "model" a last message with tool calls routes to "tools" and one
\* without routes to END; and the refusal is only ever appended with the
\* budget below 2.
C15_BudgetStopsToolCalls ==
    [][(Running("model") /\ "remaining_steps" \in DOMAIN state)
       => LET last == state'["messages"][Len(state'["messages"])]
          IN  /\ error' = "none"
              /\ Len(state'["messages"]) = Len(state["messages"]) + 1
              /\ state["remaining_steps"] < 2
                 => (last.tool_calls = <<>> /\ pc' = "END")
              /\ state["remaining_steps"] >= 2 => last \in ModelResponses
              /\ last.tool_calls # <<>> <=> pc' = "tools"
              /\ last.tool_calls = <<>> <=> pc' = "END"]_vars

\* C15 witness: after a tool ran, the budget was below 2 and the refusal was
\* appended; the loop has ended.
C15_Witness ==
    /\ pc = "END"
    /\ state["messages"][Len(state["messages"])] = Refusal
    /\ \E i \in 1..Len(state["messages"]) : state["messages"][i].type = "tool"


NoDuplicates(seq) == \A i, j \in 1..Len(seq) : seq[i] = seq[j] => i = j

\* C16: a step in which the model call fails leaves the session as it was
\* (state and position unchanged), the retry starts from that same state, and
\* with failures and retries no evaluation record and no emitted question is
\* duplicated and none is skipped.
C16_GatewayFailureLeavesSession ==
    /\ [][/\ (error = "none" /\ error' = "GatewayInvocationFailure")
             => (state' = state /\ pc' = pc)
          /\ error = "GatewayInvocationFailure"
             => (state' = state /\ pc' = pc /\ error' = "none")]_vars
    /\ [](WellFormedSession(state)
          => /\ IsPrefix(QuestionsEmitted(state), BankOrder(state["questions"]))
             /\ NoDuplicates([i \in 1..Len(EvalResults(state)) |->
                                EvalResults(state)[i].question])
             /\ IsPrefix([i \in 1..Len(EvalResults(state)) |->
                            EvalResults(state)[i].question],
                         QuestionsEmitted(state)))

\* C16 witness: the model call failed in the evaluation of the second
\* question.
C16_Witness ==
    /\ error = "GatewayInvocationFailure"
    /\ pc = "evaluate_response"
    /\ Len(EvalResults(state)) = 1
    /\ Len(QuestionsEmitted(state)) = 2


\* The value of a sequence of decimal digits.
DecimalValue(digits) ==
    LET Pow10[n \in 0..Len(digits)] == IF n = 0 THEN 1 ELSE 10 * Pow10[n - 1]
        Partial[n \in 0..Len(digits)] ==
            IF n = 0 THEN 0
            ELSE Partial[n - 1] + DigitValue(digits[n]) * Pow10[Len(digits) - n]
    IN  Partial[Len(digits)]

\* The part of a line between its leading and trailing blanks.
Trimmed(line) ==
    LET inked == {i \in 1..Len(line) : line[i] # " "}
    IN  IF inked = {} THEN <<>>
        ELSE SubSeq(line, CHOOSE i \in inked : \A j \in inked : i <= j,
                          CHOOSE i \in inked : \A j \in inked : j <= i)

SolelyDigits(line) ==
    /\ Len(line) > 0
    /\ \A i \in 1..Len(line) : IsDigitChar(line[i]) \/ line[i] \in OtherDigitChars

SolelyDecimalDigits(line) ==
    Len(line) > 0 /\ \A i \in 1..Len(line) : IsDigitChar(line[i])

Extracted == pc = "END" /\ "score" \in DOMAIN state

\* C17 as stated: extraction never raises, the score is the integer on the
\* first line that consists solely of digits, it is absent when there is no
\* such line, and the raw text is the rationale.
C17_ScoreIsFirstAllDigitLine ==
    Extracted =>
        LET digitLines == {i \in 1..Len(state.content) : SolelyDigits(state.content[i])}
            first == CHOOSE i \in digitLines : \A j \in digitLines : i <= j
        IN  /\ error = "none"
            /\ state.rationale = state.content
            /\ digitLines = {} => state.score = None
            /\ (digitLines # {} /\ SolelyDecimalDigits(state.content[first]))
               => state.score = Some(DecimalValue(state.content[first]))

\* C17 amended: extraction never raises; the line that counts is the first
\* one that consists solely of digits once the blanks around it are removed;
\* the score is its integer when it is a decimal number and absent when it is
\* not or when there is no such line; the raw text is the rationale.
C17_ScoreIsFirstTrimmedDigitLine ==
    Extracted =>
        LET digitLines == {i \in 1..Len(state.content) :
                              SolelyDigits(Trimmed(state.content[i]))}
            first == CHOOSE i \in digitLines : \A j \in digitLines : i <= j
        IN  /\ error = "none"
            /\ state.rationale = state.content
            /\ state.score = IF digitLines = {} THEN None
                             ELSE IF SolelyDecimalDigits(Trimmed(state.content[first]))
                             THEN Some(DecimalValue(Trimmed(state.content[first])))
                             ELSE None

\* C17 witness: a text whose first line is prose and whose second line is a
\* number after a blank has been scored.
C17_Witness ==
    /\ Extracted
    /\ state.content = << <<"x", "x">>, <<" ", "3">> >>
    /\ state.score = Some(3)


\* The range of a score.
MinScore == 1
MaxScore == 5

\* C18: the score of every record of eval_results is None or an integer from
\* 1 to 5.
C18_ScoresWithinRange ==
    \A i \in 1..Len(EvalResults(state)) :
        \/ EvalResults(state)[i].score = None
        \/ \E n \in MinScore..MaxScore : EvalResults(state)[i].score = Some(n)

\* C19: across every step the transcript is extended at its end, or left as
\* it is: its length does not decrease and every message keeps its position
\* and content.
C19_TranscriptAppendOnly ==
    [][/\ Len(state'["messages"]) >= Len(state["messages"])
       /\ \A i \in 1..Len(state["messages"]) :
            state'["messages"][i] = state["messages"][i]]_vars

\* C19 witness: a transcript with a question, a follow-up and two messages of
\* the candidate, in a run that was invoked again.
C19_Witness ==
    /\ Len(SelectSeq(state["messages"], IsQuestion)) >= 1
    /\ Len(SelectSeq(state["messages"], IsFollowUp)) >= 1
    /\ Len(SelectSeq(state["messages"], IsCandidate)) >= 2
    /\ error = "none"

\* What fetch_question_node has appended to the transcript, in order.
FetchEmitted(s) ==
    LET ms == SelectSeq(s["messages"], LAMBDA m : IsQuestion(m) \/ IsDoneSignal(m))
    IN  [i \in 1..Len(ms) |-> ms[i].content]

\* The competency the bank gives for a question text.
BankCompetency(content) == Some(CompetencyOf(content[1], content[2]))

\* C20: a step that adds an evaluation record adds one record, for the
\* question fetch_question_node appended last, with that question's
\* competency; the records and the questions emitted correspond one to one.
C20_RecordNamesEmittedQuestion ==
    [][Len(EvalResults(state')) > Len(EvalResults(state))
       => LET record == EvalResults(state')[Len(EvalResults(state'))]
              emitted == FetchEmitted(state)
          IN  /\ Len(EvalResults(state')) = Len(EvalResults(state)) + 1
              /\ Len(emitted) = Len(EvalResults(state'))
              /\ record.question = emitted[Len(emitted)]
              /\ record.competency = BankCompetency(record.question)]_vars

\* C20 witness: the first question of the second category has been
\* evaluated, after a question of the first category.
C20_Witness ==
    /\ Len(state["questions"]) = 2
    /\ Len(EvalResults(state)) = 2
    /\ EvalResults(state)[1].question[1] = state["questions"][1].name
    /\ EvalResults(state)[2].question = <<state["questions"][2].name, 1>>
    /\ pc = "routing"


\* A session whose initial state sets neither category_idx nor idx.
CursorUnset(s) == "category_idx" \notin DOMAIN s /\ "idx" \notin DOMAIN s

\* C21: with category_idx and idx not set, the evaluation of the first
\* question reads the cursor as (0, 0), raises nothing and leaves the cursor
\* advanced to (0, 1).
C21_UnsetCursorReadsAsZero ==
    [][(/\ Running("evaluate_response")
        /\ CursorUnset(state)
        /\ NoEmptyCategory(state))
       => /\ error' = "none"
          /\ CategoryIdx(state') = 0
          /\ Idx(state') = 1]_vars


\* The texts of the questions of a bank.
BankQuestions(bank) == {BankOrder(bank)[i] : i \in 1..Len(BankOrder(bank))}

\* C22: for any bank, a category without questions included, a fetch with the
\* cursor set and on a category of the bank raises nothing and emits a
\* question of the bank or the Done signal.
C22_FetchStaysInsideBank ==
    [][(/\ Running("fetch_question")
        /\ {"idx", "category_idx"} \subseteq DOMAIN state
        /\ CategoryIdx(state) < Len(state["questions"]))
       => /\ error' = "none"
          /\ LET m == state'["messages"][Len(state'["messages"])]
             IN  \/ IsDoneSignal(m)
                 \/ IsQuestion(m) /\ m.content \in BankQuestions(state["questions"])]_vars


LastMessage(s) == s["messages"][Len(s["messages"])]

\* C23: in human_demo a run comes to END only from "agent" and only with a
\* last message without tool calls; from "agent" a last message whose first
\* tool call is AskHuman leads to ask_human and any other tool call to
\* action; action and ask_human lead back to "agent"; and ask_human runs only
\* in a run that was suspended before it and resumed.
C23_HumanGraphRouting ==
    [][/\ (pc # "END" /\ pc' = "END")
          => (pc = "agent" /\ LastMessage(state').tool_calls = <<>>)
       /\ (pc = "agent" /\ state'["messages"] # state["messages"])
          => LET calls == LastMessage(state').tool_calls
             IN  /\ calls = <<>> => pc' = "END"
                 /\ (calls # <<>> /\ calls[1] = "AskHuman") => pc' = "ask_human"
                 /\ (calls # <<>> /\ calls[1] # "AskHuman") => pc' = "action"
       /\ (pc \in {"action", "ask_human"} /\ pc' # pc) => pc' = "agent"
       /\ (pc # "ask_human" /\ pc' = "ask_human") => state'["interrupt"] = "suspended"
       /\ state'["interrupt"] = "resumed"
          => state["interrupt"] \in {"suspended", "resumed"}
       /\ (pc = "ask_human" /\ pc' # pc) => state["interrupt"] = "resumed"]_vars

\* C23 witness: a run that asked the human, was resumed, ran a tool and came
\* to END.
C23_Witness ==
    /\ pc = "END"
    /\ \E i \in 1..Len(state["messages"]) : state["messages"][i] = HumanAnswer
    /\ \E i \in 1..Len(state["messages"]) : state["messages"][i].type = "tool"
    /\ LastMessage(state).tool_calls = <<>>


\* The nodes registered with add_node.
Nodes ==
    {"welcome", "fetch_question", "evaluate_response", "routing",
     "follow_up_question", "closing_remarks", "final_evaluation"}

\* The edges added with add_edge, as <<source, target>>.
Edges ==
    {<<"welcome", "fetch_question">>, <<"fetch_question", "evaluate_response">>,
     <<"evaluate_response", "routing">>, <<"closing_remarks", "final_evaluation">>}

\* The conditional edges added with add_conditional_edges, as <<source,
\* target>> for every target of their path maps.
ConditionalEdges ==
    {<<"routing", path_map(p)>> :
        p \in {"follow_up_question", "fetch_question", "end_interview"}}
    \cup {<<"model", model_path_map(p)>> : p \in {"tools", "done"}}

\* The node the interview ends at.
TerminalNode == "final_evaluation"

EdgeEndsRegistered ==
    \A e \in Edges \cup ConditionalEdges :
        e[1] \in Nodes /\ e[2] \in Nodes \cup {"END"}

EveryNodeLeadsOn ==
    \A n \in Nodes \ {TerminalNode} :
        \E e \in Edges \cup ConditionalEdges : e[1] = n

\* C24: every source and target of an edge or conditional edge is a
\* registered node, every registered node but the terminal one has an
\* outgoing transition, and no run stops at a node other than the terminal
\* one.
C24_GraphWellFormed ==
    /\ [](EdgeEndsRegistered /\ EveryNodeLeadsOn)
    /\ [][(pc # "END" /\ pc' = "END") => pc = TerminalNode]_vars

====
